---- MODULE Spec2Model ----
(***************************************************************************)
(* Model of the GPS tracker gateway of src/index.js: the per-connection    *)
(* framer and dispatcher (socket.on("data")), the close handler            *)
(* (socket.on("close")), the session registry socketsByImei and the        *)
(* operator endpoints /change-server, /send-ts and /send-cr.               *)
(*                                                                         *)
(* Text is modelled as a sequence of character codes (JavaScript string    *)
(* code units); a TCP chunk is a sequence of bytes 0..255.                 *)
(***************************************************************************)
EXTENDS Integers, Sequences, FiniteSets, TLC

(* ------------------------------------------------------------------ *)
(* Characters and string literals of the source                        *)
(* ------------------------------------------------------------------ *)
LBRACK == 91      \* "["
RBRACK == 93      \* "]"
STAR == 42        \* "*"
COMMA == 44       \* ","
ZERO == 48        \* "0"
REPLACEMENT == 65533   \* U+FFFD, what the UTF-8 decoder emits for an invalid byte

s3G == <<51, 71>>                       \* "3G"
sLK == <<76, 75>>                       \* "LK"
sUD == <<85, 68>>                       \* "UD"
sUD2 == <<85, 68, 50>>                  \* "UD2"
sUD_LTE == <<85, 68, 95, 76, 84, 69>>   \* "UD_LTE"
sUD_WCDMA == <<85, 68, 95, 87, 67, 68, 77, 65>>   \* "UD_WCDMA"
sAL == <<65, 76>>                       \* "AL"
sAL_LTE == <<65, 76, 95, 76, 84, 69>>   \* "AL_LTE"
sCONFIG == <<67, 79, 78, 70, 73, 71>>   \* "CONFIG"
sCONFIG1 == <<67, 79, 78, 70, 73, 71, 44, 49>>   \* "CONFIG,1"
sTS == <<84, 83>>                       \* "TS"
sCR == <<67, 82>>                       \* "CR"
sVERNO == <<86, 69, 82, 78, 79>>        \* "VERNO"
sIP == <<73, 80>>                       \* "IP"
s0002 == <<48, 48, 48, 50>>             \* "0002"
s0008 == <<48, 48, 48, 56>>             \* "0008"

(* ------------------------------------------------------------------ *)
(* JavaScript string primitives                                         *)
(* ------------------------------------------------------------------ *)
\* String.prototype.indexOf(ch): 0-based index of the first ch, or -1.
IndexOf(s, ch) ==
  IF \E i \in 1..Len(s) : s[i] = ch
  THEN (CHOOSE i \in 1..Len(s) : s[i] = ch /\ \A j \in 1..(i - 1) : s[j] # ch) - 1
  ELSE -1

\* String.prototype.slice(a, b) for 0 <= a, b: the code units a..b-1.
Slice(s, a, b) == SubSeq(s, a + 1, b)

\* String.prototype.slice(a): the code units from a to the end.
SliceFrom(s, a) == SubSeq(s, a + 1, Len(s))

\* String.prototype.includes(ch) for a one-character needle.
Includes(s, ch) == \E i \in 1..Len(s) : s[i] = ch

\* A startsWith that is written as includes: p occurs anywhere in s.
StartsWithAsIncludes(s, p) ==
  \E k \in 0..(Len(s) - Len(p)) : SubSeq(s, k + 1, k + Len(p)) = p

\* String.prototype.startsWith(p).
StartsWith(s, p) == Len(s) >= Len(p) /\ SubSeq(s, 1, Len(p)) = p

\* String.prototype.split(sep) for a one-character separator: always at
\* least one field; an empty string gives one empty field.
RECURSIVE Split(_, _)
Split(s, sep) ==
  LET i == IndexOf(s, sep)
  IN  IF i = -1 THEN <<s>>
      ELSE <<Slice(s, 0, i)>> \o Split(SliceFrom(s, i + 1), sep)

\* Array.prototype.join(sep) for a one-character separator.
RECURSIVE Join(_, _)
Join(parts, sep) ==
  IF Len(parts) = 0 THEN <<>>
  ELSE IF Len(parts) = 1 THEN parts[1]
  ELSE parts[1] \o <<sep>> \o Join(Tail(parts), sep)

\* String(n) for a non-negative integer n: its decimal digits.
RECURSIVE ToDecimal(_)
ToDecimal(n) ==
  IF n < 10 THEN <<ZERO + n>>
  ELSE Append(ToDecimal(n \div 10), ZERO + (n % 10))

\* String.prototype.padStart(width, ch): left-pad up to width, never cut.
RECURSIVE PadStart(_, _, _)
PadStart(s, width, ch) ==
  IF Len(s) >= width THEN s ELSE PadStart(<<ch>> \o s, width, ch)

\* The code units of s that belong to keep, in order (what is left after
\* s.replace(/[^keep]/g, '')).
RECURSIVE Filter(_, _)
Filter(s, keep) ==
  IF Len(s) = 0 THEN <<>>
  ELSE IF Head(s) \in keep THEN <<Head(s)>> \o Filter(Tail(s), keep)
  ELSE Filter(Tail(s), keep)

(* ------------------------------------------------------------------ *)
(* Buffer.toString('utf8') and Buffer.from(s, 'hex')                    *)
(* ------------------------------------------------------------------ *)
\* UTF-16 code units of one code point.
CodeUnits(cp) ==
  IF cp < 65536 THEN <<cp>>
  ELSE <<55296 + ((cp - 65536) \div 1024), 56320 + ((cp - 65536) % 1024)>>

\* How many continuation bytes the lead byte b announces (-1: not a lead).
Utf8Need(b) ==
  IF b < 128 THEN 0
  ELSE IF b \in 194..223 THEN 1
  ELSE IF b \in 224..239 THEN 2
  ELSE IF b \in 240..244 THEN 3
  ELSE -1

\* The allowed range of the byte at offset k (1-based) after lead byte b.
Utf8Range(b, k) ==
  IF k > 1 THEN 128..191
  ELSE IF b = 224 THEN 160..191
  ELSE IF b = 237 THEN 128..159
  ELSE IF b = 240 THEN 144..191
  ELSE IF b = 244 THEN 128..143
  ELSE 128..191

\* How many of the bytes after the lead bs[1] continue its sequence.
RECURSIVE Utf8Valid(_, _)
Utf8Valid(bs, k) ==
  IF k >= Utf8Need(bs[1]) \/ Len(bs) < k + 2 THEN k
  ELSE IF bs[k + 2] \in Utf8Range(bs[1], k + 1) THEN Utf8Valid(bs, k + 1)
  ELSE k

\* The code point of a complete sequence: lead byte and n continuations.
Utf8Point(bs, n) ==
  IF n = 0 THEN bs[1]
  ELSE IF n = 1 THEN (bs[1] - 192) * 64 + (bs[2] - 128)
  ELSE IF n = 2 THEN (bs[1] - 224) * 4096 + (bs[2] - 128) * 64 + (bs[3] - 128)
  ELSE (bs[1] - 240) * 262144 + (bs[2] - 128) * 4096
         + (bs[3] - 128) * 64 + (bs[4] - 128)

\* chunk.toString('utf8'): every maximal invalid or truncated part of a
\* sequence becomes one U+FFFD; nothing is carried over to the next chunk.
RECURSIVE Utf8Decode(_)
Utf8Decode(bs) ==
  IF Len(bs) = 0 THEN <<>>
  ELSE LET need == Utf8Need(bs[1])
           k == IF need = -1 THEN 0 ELSE Utf8Valid(bs, 0)
       IN  IF need # -1 /\ k = need
           THEN CodeUnits(Utf8Point(bs, need)) \o Utf8Decode(SliceFrom(bs, 1 + need))
           ELSE <<REPLACEMENT>> \o Utf8Decode(SliceFrom(bs, 1 + k))

\* The characters /\s/ matches.
WhitespaceChars ==
  {9, 10, 11, 12, 13, 32, 160, 5760, 8232, 8233, 8239, 8287, 12288, 65279}
    \cup (8192..8202)

\* The characters [0-9A-Fa-f].
HexDigits == (48..57) \cup (65..70) \cup (97..102)

\* The value of one hex digit.
HexVal(c) ==
  IF c \in 48..57 THEN c - 48
  ELSE IF c \in 65..70 THEN c - 55
  ELSE c - 87

\* Buffer.from(hexString, 'hex') for a string of hex digits: one byte per
\* pair of digits; a trailing single digit is dropped.
RECURSIVE FromHex(_)
FromHex(h) ==
  IF Len(h) < 2 THEN <<>>
  ELSE <<16 * HexVal(h[1]) + HexVal(h[2])>> \o FromHex(SliceFrom(h, 2))

\* asciiData.replace(/[\s\n\r]/g, ''): asciiData without whitespace.
StripWhitespace(s) ==
  Filter(s, {s[i] : i \in 1..Len(s)} \ WhitespaceChars)

\* /^[0-9A-Fa-f\s]+$/.test(s): s is not empty and holds only hex digits
\* and whitespace.
HexPatternTest(s) ==
  Len(s) > 0 /\ \A i \in 1..Len(s) : s[i] \in HexDigits \cup WhitespaceChars

\* A hex detection that converts when either marker is in the decoding.
DataToProcessEitherMarker(chunk) ==
  LET asciiData == Utf8Decode(chunk)
      hexString == StripWhitespace(asciiData)
  IN  IF HexPatternTest(hexString) /\ Len(hexString) % 2 = 0
      THEN LET converted == Utf8Decode(FromHex(hexString))
           IN  IF Includes(converted, LBRACK) \/ Includes(converted, RBRACK)
               THEN converted
               ELSE asciiData
      ELSE asciiData

\* The text the data handler appends to the buffer for one chunk: the
\* chunk's UTF-8 text, or its hex decoding when the text is an even number
\* of hex digits (whitespace apart) that decodes to text with both markers.
DataToProcess(chunk) ==
  LET asciiData == Utf8Decode(chunk)
      hexString == StripWhitespace(asciiData)
  IN  IF HexPatternTest(hexString) /\ Len(hexString) % 2 = 0
      THEN LET converted == Utf8Decode(FromHex(hexString))
           IN  IF Includes(converted, LBRACK) /\ Includes(converted, RBRACK)
               THEN converted
               ELSE asciiData
      ELSE asciiData

(* ------------------------------------------------------------------ *)
(* Message parser, dispatcher table and frame encoder                   *)
(* ------------------------------------------------------------------ *)
\* No message: what the frame loop yields when it runs out of frames.
NoMsg == [proto |-> <<-1>>, imei |-> <<-1>>, lenField |-> <<-1>>, body |-> <<-1>>]

\* The value null of deviceImei.
Null == <<-1>>

\* if (deviceImei): neither null nor the empty string.
Truthy(s) == s # Null /\ Len(s) > 0

\* The fields of one frame interior: message.split("*").
Parts(message) == Split(message, STAR)

\* A parser that takes the fourth field alone as the body.
ParseMessageFourthOnly(message) ==
  LET parts == Parts(message)
  IN  [proto |-> parts[1], imei |-> parts[2], lenField |-> parts[3],
       body |-> parts[4]]

\* The parsed message of a frame interior with at least 4 fields.
ParseMessage(message) ==
  LET parts == Parts(message)
  IN  [proto |-> parts[1], imei |-> parts[2], lenField |-> parts[3],
       body |-> Join(SubSeq(parts, 4, Len(parts)), STAR)]

\* A server-originated frame `[3G*${imei}*${len}*${payload}]`.
ServerFrame(imei, len, payload) ==
  <<LBRACK>> \o s3G \o <<STAR>> \o imei \o <<STAR>> \o len \o <<STAR>>
    \o payload \o <<RBRACK>>

\* A dispatcher that acknowledges position reports as it does keep-alives.
RepliesAckPosition(imei, body) ==
  (IF StartsWith(body, sLK) \/ StartsWith(body, sUD)
   THEN <<ServerFrame(imei, s0002, sLK)>> ELSE <<>>)
  \o (IF StartsWith(body, sAL) \/ StartsWith(body, sAL_LTE)
      THEN <<ServerFrame(imei, s0002, sAL)>> ELSE <<>>)
  \o (IF StartsWith(body, sCONFIG)
      THEN <<ServerFrame(imei, s0008, sCONFIG1)>> ELSE <<>>)

\* The frames the dispatcher hands to safeWrite for one message, in the
\* order of its if statements: LK, then AL / AL_LTE, then CONFIG.
Replies(imei, body) ==
  (IF StartsWith(body, sLK) THEN <<ServerFrame(imei, s0002, sLK)>> ELSE <<>>)
  \o (IF StartsWith(body, sAL) \/ StartsWith(body, sAL_LTE)
      THEN <<ServerFrame(imei, s0002, sAL)>> ELSE <<>>)
  \o (IF StartsWith(body, sCONFIG)
      THEN <<ServerFrame(imei, s0008, sCONFIG1)>> ELSE <<>>)

\* A length field padded to 3 digits.
buildLenFieldThree(payload) == PadStart(ToDecimal(Len(payload)), 3, ZERO)

\* buildLenField(payload): the length as a 4-digit string.
buildLenField(payload) == PadStart(ToDecimal(Len(payload)), 4, ZERO)

\* A frame loop that leaves the loop at a malformed frame.
FrameLoopBreakOnMalformed(buf, seen) ==
  LET startIdx == IndexOf(buf, LBRACK)
      endIdx == IndexOf(buf, RBRACK)
  IN  IF startIdx # -1 /\ endIdx # -1 /\ endIdx > startIdx
      THEN LET message == Slice(buf, startIdx + 1, endIdx)
               rest == SliceFrom(buf, endIdx + 1)
           IN  IF Len(Parts(message)) >= 4
               THEN [buffer |-> rest, frames |-> Append(seen, message),
                     msg |-> ParseMessage(message)]
               ELSE [buffer |-> rest, frames |-> Append(seen, message),
                     msg |-> NoMsg]
      ELSE [buffer |-> buf, frames |-> seen, msg |-> NoMsg]

\* The frame loop of the data handler from a buffer on: it extracts frames
\* while the first "[" comes before the first "]", skips the malformed
\* ones and stops at the first well-formed message (where the handler
\* suspends on the record sink) or when no such pair is left.
RECURSIVE FrameLoop(_, _)
FrameLoop(buf, seen) ==
  LET startIdx == IndexOf(buf, LBRACK)
      endIdx == IndexOf(buf, RBRACK)
  IN  IF startIdx # -1 /\ endIdx # -1 /\ endIdx > startIdx
      THEN LET message == Slice(buf, startIdx + 1, endIdx)
               rest == SliceFrom(buf, endIdx + 1)
           IN  IF Len(Parts(message)) >= 4
               THEN [buffer |-> rest, frames |-> Append(seen, message),
                     msg |-> ParseMessage(message)]
               ELSE FrameLoop(rest, Append(seen, message))
      ELSE [buffer |-> buf, frames |-> seen, msg |-> NoMsg]

(* ------------------------------------------------------------------ *)
(* Bounds and inputs                                                    *)
(* ------------------------------------------------------------------ *)
\* Data events per behaviour of Spec.
MaxData == 2

\* The connection handles (socket objects).
Conns == {"A", "B"}

\* Device identities: "1" and "2".
D1 == <<49>>
D2 == <<50>>

\* What a device puts on the wire: `[3G*${imei}*${len}*${body}]` with the
\* 4-digit length of the body.
DeviceFrame(imei, body) ==
  <<LBRACK>> \o s3G \o <<STAR>> \o imei \o <<STAR>>
    \o PadStart(ToDecimal(Len(body)), 4, ZERO) \o <<STAR>> \o body \o <<RBRACK>>

\* A frame with three fields only: "[3G*1*LK]".
Malformed == <<LBRACK>> \o s3G \o <<STAR>> \o D1 \o <<STAR>> \o sLK \o <<RBRACK>>

\* The chunks a device may send in Spec.
Chunks ==
  { DeviceFrame(D1, sLK),
    DeviceFrame(D2, sUD),
    Malformed,
    Malformed \o DeviceFrame(D1, sAL),
    DeviceFrame(D1, sLK) \o DeviceFrame(D2, sUD) }

(* ------------------------------------------------------------------ *)
(* State                                                                *)
(* ------------------------------------------------------------------ *)
VARIABLES
  status,         \* per connection: "idle", "open" or "closed"
  buffer,         \* per connection: the closure variable buffer
  deviceImei,     \* per connection: the closure variable deviceImei
  pending,        \* per connection: the messages of the data handlers
                  \* suspended at await Device.findOneAndUpdate
  socketsByImei,  \* the session registry: imei -> connection
  written,        \* per connection: the frames handed to socket.write
  frames,         \* per connection: the frame interiors extracted so far
  sinkCalls,      \* the Device.findOneAndUpdate calls issued so far
  everSet,        \* per connection: the imeis it has set in the registry
  writeFails,     \* per connection: socket.write throws from now on
  ev,             \* the last event handled
  stream,         \* the byte stream a device sends (SpecDecoder, SpecDispatch)
  fed,            \* per connection: how many bytes of stream it has received
  nData,          \* data events so far (Spec)
  nOps            \* operator requests so far (Spec)

progVars ==
  <<status, buffer, deviceImei, pending, socketsByImei, written, frames,
    sinkCalls, everSet, writeFails, ev>>
vars == <<progVars, stream, fed, nData, nOps>>

\* A registry write that keeps an existing entry.
MapSetIfAbsent(m, k, v) ==
  [x \in DOMAIN m \cup {k} |-> IF x \in DOMAIN m THEN m[x] ELSE v]

\* Map.prototype.set.
MapSet(m, k, v) == [x \in DOMAIN m \cup {k} |-> IF x = k THEN v ELSE m[x]]
\* Map.prototype.delete.
MapDelete(m, k) == [x \in DOMAIN m \ {k} |-> m[x]]

\* safeWrite, called once for each frame of datas: socket.write hands the
\* frame to the transport, or throws and the catch only logs.
safeWrite(w, socket, datas) ==
  IF writeFails[socket] THEN w ELSE [w EXCEPT ![socket] = @ \o datas]

\* The state before any connection: an empty registry, nothing received.
InitProg ==
  /\ status = [c \in Conns |-> "idle"]
  /\ buffer = [c \in Conns |-> <<>>]
  /\ deviceImei = [c \in Conns |-> Null]
  /\ pending = [c \in Conns |-> <<>>]
  /\ socketsByImei = [x \in {} |-> "A"]
  /\ written = [c \in Conns |-> <<>>]
  /\ frames = [c \in Conns |-> <<>>]
  /\ sinkCalls = <<>>
  /\ everSet = [c \in Conns |-> {}]
  /\ writeFails = [c \in Conns |-> FALSE]
  /\ ev = [type |-> "start"]
  /\ fed = [c \in Conns |-> 0]
  /\ nData = 0
  /\ nOps = 0

Init == InitProg /\ stream = <<>>

(* ------------------------------------------------------------------ *)
(* The TCP handlers                                                     *)
(* ------------------------------------------------------------------ *)
\* The effect of one run of the frame loop on connection c, from the
\* buffer content buf: the frames it extracts are logged, the loop's
\* leftover is the new buffer and, when it stops at a well-formed message,
\* deviceImei is set, the upsert is issued and the handler suspends.
RunLoop(c, buf, others) ==
  LET r == FrameLoop(buf, <<>>)
  IN  /\ buffer' = [buffer EXCEPT ![c] = r.buffer]
      /\ frames' = [frames EXCEPT ![c] = @ \o r.frames]
      /\ IF r.msg # NoMsg
         THEN /\ deviceImei' = [deviceImei EXCEPT ![c] = r.msg.imei]
              /\ sinkCalls' = Append(sinkCalls,
                   [conn |-> c, imei |-> r.msg.imei, connected |-> TRUE])
              /\ pending' = [pending EXCEPT ![c] = Append(others, r.msg)]
         ELSE /\ deviceImei' = deviceImei
              /\ sinkCalls' = sinkCalls
              /\ pending' = [pending EXCEPT ![c] = others]

\* net.createServer's callback: a new connection with an empty buffer.
Connect(c) ==
  /\ status[c] = "idle"
  /\ status' = [status EXCEPT ![c] = "open"]
  /\ ev' = [type |-> "connect", conn |-> c]
  /\ UNCHANGED <<buffer, deviceImei, pending, socketsByImei, written, frames,
                 sinkCalls, everSet, writeFails>>

\* socket.on("data") if it framed the new chunk alone, dropping what the
\* buffer held.
DataDropsBuffer(c, chunk) ==
  /\ status[c] = "open"
  /\ Len(chunk) > 0
  /\ RunLoop(c, DataToProcess(chunk), pending[c])
  /\ ev' = [type |-> "data", conn |-> c, chunk |-> chunk,
            data |-> DataToProcess(chunk)]
  /\ UNCHANGED <<status, socketsByImei, written, everSet, writeFails>>

\* socket.on("data") up to its first await (or its end): the chunk is
\* appended to the buffer, as text or hex-decoded, and the frame loop runs.
Data(c, chunk) ==
  /\ status[c] = "open"
  /\ Len(chunk) > 0
  /\ RunLoop(c, buffer[c] \o DataToProcess(chunk), pending[c])
  /\ ev' = [type |-> "data", conn |-> c, chunk |-> chunk,
            data |-> DataToProcess(chunk)]
  /\ UNCHANGED <<status, socketsByImei, written, everSet, writeFails>>

\* The resumption of a data handler if a rejected upsert were not caught:
\* the handler ends there, without registry entry, reply or further
\* frames.
SinkCompleteOnlyIfOk(c, i, ok) ==
  /\ i \in 1..Len(pending[c])
  /\ LET msg == pending[c][i]
         others == SubSeq(pending[c], 1, i - 1)
                     \o SubSeq(pending[c], i + 1, Len(pending[c]))
         replies == Replies(msg.imei, msg.body)
     IN  IF ok
         THEN /\ socketsByImei' = MapSet(socketsByImei, msg.imei, c)
              /\ everSet' = [everSet EXCEPT ![c] = @ \cup {msg.imei}]
              /\ written' = safeWrite(written, c, replies)
              /\ RunLoop(c, buffer[c], others)
              /\ ev' = [type |-> "sink", conn |-> c, msg |-> msg, ok |-> ok,
                        replies |-> replies]
         ELSE /\ pending' = [pending EXCEPT ![c] = others]
              /\ ev' = [type |-> "sink", conn |-> c, msg |-> msg, ok |-> ok,
                        replies |-> <<>>]
              /\ UNCHANGED <<socketsByImei, everSet, written, buffer, frames,
                             deviceImei, sinkCalls>>
  /\ UNCHANGED <<status, writeFails>>

\* The resumption of a data handler if a throwing socket.write were not
\* caught: the handler ends at the write, the frames left in the buffer
\* stay there.
SinkCompleteWriteThrows(c, i, ok) ==
  /\ i \in 1..Len(pending[c])
  /\ LET msg == pending[c][i]
         others == SubSeq(pending[c], 1, i - 1)
                     \o SubSeq(pending[c], i + 1, Len(pending[c]))
         replies == Replies(msg.imei, msg.body)
     IN  /\ socketsByImei' = MapSet(socketsByImei, msg.imei, c)
         /\ everSet' = [everSet EXCEPT ![c] = @ \cup {msg.imei}]
         /\ written' = safeWrite(written, c, replies)
         /\ IF writeFails[c] /\ replies # <<>>
            THEN /\ pending' = [pending EXCEPT ![c] = others]
                 /\ UNCHANGED <<buffer, frames, deviceImei, sinkCalls>>
            ELSE RunLoop(c, buffer[c], others)
         /\ ev' = [type |-> "sink", conn |-> c, msg |-> msg, ok |-> ok,
                   replies |-> replies]
  /\ UNCHANGED <<status, writeFails>>

\* The i-th suspended data handler of c resumes after its upsert settled
\* (resolved or rejected and caught): it stores the socket under the imei,
\* writes the replies and goes on with the frame loop on the buffer as it
\* is now.
SinkComplete(c, i, ok) ==
  /\ i \in 1..Len(pending[c])
  /\ LET msg == pending[c][i]
         others == SubSeq(pending[c], 1, i - 1)
                     \o SubSeq(pending[c], i + 1, Len(pending[c]))
         replies == Replies(msg.imei, msg.body)
     IN  /\ socketsByImei' = MapSet(socketsByImei, msg.imei, c)
         /\ everSet' = [everSet EXCEPT ![c] = @ \cup {msg.imei}]
         /\ written' = safeWrite(written, c, replies)
         /\ RunLoop(c, buffer[c], others)
         /\ ev' = [type |-> "sink", conn |-> c, msg |-> msg, ok |-> ok,
                   replies |-> replies]
  /\ UNCHANGED <<status, writeFails>>

\* socket.on("close"): the mapping of the connection's last imei is
\* deleted, whoever holds it, and the record is flipped to disconnected.
Close(c) ==
  /\ status[c] = "open"
  /\ status' = [status EXCEPT ![c] = "closed"]
  /\ IF Truthy(deviceImei[c])
     THEN /\ socketsByImei' = MapDelete(socketsByImei, deviceImei[c])
          /\ sinkCalls' = Append(sinkCalls,
               [conn |-> c, imei |-> deviceImei[c], connected |-> FALSE])
     ELSE UNCHANGED <<socketsByImei, sinkCalls>>
  /\ ev' = [type |-> "close", conn |-> c]
  /\ UNCHANGED <<buffer, deviceImei, pending, written, frames, everSet,
                 writeFails>>

\* The transport of c starts to reject writes: from now on socket.write
\* throws on this socket.
Break(c) ==
  /\ status[c] = "open"
  /\ ~writeFails[c]
  /\ writeFails' = [writeFails EXCEPT ![c] = TRUE]
  /\ ev' = [type |-> "break", conn |-> c]
  /\ UNCHANGED <<status, buffer, deviceImei, pending, socketsByImei, written,
                 frames, sinkCalls, everSet>>

(* ------------------------------------------------------------------ *)
(* The operator endpoints                                               *)
(* ------------------------------------------------------------------ *)
\* n copies of "x".
Repeat(n) == [i \in 1..n |-> 120]

\* "148.230.83.171" and "1.2.3.4".
Ip22 == <<49, 52, 56, 46, 50, 51, 48, 46, 56, 51, 46, 49, 55, 49>>
Ip14 == <<49, 46, 50, 46, 51, 46, 52>>
\* "6808" and "9000".
Port6808 == <<54, 56, 48, 56>>
Port9000 == <<57, 48, 48, 48>>

\* The handlers of /send-ts and /send-cr if, for an imei without a
\* registry entry, they answered 404 and wrote the frame to every
\* connection.
SendFixedBroadcast(route, imei, payload) ==
  /\ IF ~Truthy(imei)
     THEN /\ ev' = [type |-> "http", route |-> route, status |-> 400]
          /\ written' = written
     ELSE IF imei \notin DOMAIN socketsByImei
     THEN /\ ev' = [type |-> "http", route |-> route, status |-> 404,
                    imei |-> imei]
          /\ written' = [c \in Conns |->
               Append(written[c], ServerFrame(imei, s0002, payload))]
     ELSE LET socket == socketsByImei[imei]
              cmd == ServerFrame(imei, s0002, payload)
          IN  /\ written' = safeWrite(written, socket, <<cmd>>)
              /\ ev' = [type |-> "http", route |-> route, status |-> 200,
                        conn |-> socket, imei |-> imei]
  /\ UNCHANGED <<status, buffer, deviceImei, pending, socketsByImei, frames,
                 sinkCalls, everSet, writeFails>>

\* The body of the handlers of /send-ts and /send-cr, which differ in the
\* command only: 400 without imei, 404 without a registry entry, else the
\* fixed frame is written to the registered socket.
SendFixed(route, imei, payload) ==
  /\ IF ~Truthy(imei)
     THEN /\ ev' = [type |-> "http", route |-> route, status |-> 400]
          /\ written' = written
     ELSE IF imei \notin DOMAIN socketsByImei
     THEN /\ ev' = [type |-> "http", route |-> route, status |-> 404,
                    imei |-> imei]
          /\ written' = written
     ELSE LET socket == socketsByImei[imei]
              cmd == ServerFrame(imei, s0002, payload)
          IN  /\ written' = safeWrite(written, socket, <<cmd>>)
              /\ ev' = [type |-> "http", route |-> route, status |-> 200,
                        conn |-> socket, imei |-> imei]
  /\ UNCHANGED <<status, buffer, deviceImei, pending, socketsByImei, frames,
                 sinkCalls, everSet, writeFails>>

\* app.post("/change-server").
ChangeServer(imei, newIp, newPort) ==
  /\ IF ~Truthy(imei) \/ ~Truthy(newIp) \/ ~Truthy(newPort)
     THEN /\ ev' = [type |-> "http", route |-> "change-server", status |-> 400]
          /\ written' = written
     ELSE IF imei \notin DOMAIN socketsByImei
     THEN /\ ev' = [type |-> "http", route |-> "change-server", status |-> 404,
                    imei |-> imei]
          /\ written' = written
     ELSE LET socket == socketsByImei[imei]
              payload == sIP \o <<COMMA>> \o newIp \o <<COMMA>> \o newPort
              len == buildLenField(payload)
              cmd == ServerFrame(imei, len, payload)
          IN  /\ written' = safeWrite(written, socket, <<cmd>>)
              /\ ev' = [type |-> "http", route |-> "change-server",
                        status |-> 200, conn |-> socket, imei |-> imei]
  /\ UNCHANGED <<status, buffer, deviceImei, pending, socketsByImei, frames,
                 sinkCalls, everSet, writeFails>>

\* app.post("/send-ts").
SendTs(imei) == SendFixed("send-ts", imei, sTS)

\* app.post("/send-cr").
SendCr(imei) == SendFixed("send-cr", imei, sCR)

(* ------------------------------------------------------------------ *)
(* Spec: two connections that receive device chunks from Chunks         *)
(* ------------------------------------------------------------------ *)
DoConnect == \E c \in Conns : Connect(c) /\ UNCHANGED <<stream, fed, nData, nOps>>

DoData ==
  \E c \in Conns, chunk \in Chunks :
    /\ nData < MaxData
    /\ Data(c, chunk)
    /\ nData' = nData + 1
    /\ UNCHANGED <<stream, fed, nOps>>

DoSinkComplete ==
  \E c \in Conns, ok \in BOOLEAN :
    \E i \in 1..Len(pending[c]) :
      SinkComplete(c, i, ok) /\ UNCHANGED <<stream, fed, nData, nOps>>

DoClose == \E c \in Conns : Close(c) /\ UNCHANGED <<stream, fed, nData, nOps>>

Next ==
  \/ DoConnect
  \/ DoData
  \/ DoSinkComplete
  \/ DoClose

Spec == Init /\ [][Next]_vars

\* SpecLive: Spec with the server's part of the scheduling. The listening
\* server accepts the connections offered to it; when a peer sends or
\* closes and when, if ever, the record store settles an upsert is not up
\* to the server.
SpecLive == Init /\ [][Next]_vars /\ WF_vars(DoConnect)

(* ------------------------------------------------------------------ *)
(* SpecDecoder: every connection receives the same byte stream, one as  *)
(* a single chunk, the others cut into chunks at any byte boundaries    *)
(* ------------------------------------------------------------------ *)
\* Tokens per stream of SpecDecoder.
MaxTokens == 3

\* The pieces the streams are made of: "[", "]", "***", "5B", "5D", "5",
\* " " and the two bytes of U+00E9.
Tokens ==
  { <<LBRACK>>, <<RBRACK>>, <<STAR, STAR, STAR>>, <<53, 66>>, <<53, 68>>,
    <<53>>, <<32>>, <<195, 169>> }

\* The concatenation of a sequence of byte strings.
RECURSIVE Concat(_)
Concat(ss) == IF Len(ss) = 0 THEN <<>> ELSE Head(ss) \o Concat(Tail(ss))

\* The streams of SpecDecoder: up to MaxTokens tokens in any order.
DecoderStreams ==
  { Concat(ts) : ts \in UNION { [1..n -> Tokens] : n \in 1..MaxTokens } }

InitDecoder == InitProg /\ stream \in DecoderStreams

\* The connection that receives the stream whole.
WholeConn == "B"

\* The next chunk of the stream arrives on c: the bytes fed[c]+1..k, all
\* the stream for WholeConn.
Feed(c, k) ==
  /\ k \in (fed[c] + 1)..Len(stream)
  /\ c = WholeConn => k = Len(stream)
  /\ Data(c, SubSeq(stream, fed[c] + 1, k))
  /\ fed' = [fed EXCEPT ![c] = k]
  /\ UNCHANGED <<stream, nData, nOps>>

FeedData == \E c \in Conns : \E k \in (fed[c] + 1)..Len(stream) : Feed(c, k)

NextFeed ==
  \/ DoConnect
  \/ FeedData
  \/ DoSinkComplete
  \/ DoClose

SpecDecoder == InitDecoder /\ [][NextFeed]_vars

(* ------------------------------------------------------------------ *)
(* SpecDispatch: the stream is one frame, its fields drawn from sets    *)
(* ------------------------------------------------------------------ *)
\* Characters per body drawn from BodyChars.
MaxBodyLen == 3

\* "L", "K", "A", "*" and ",".
BodyChars == {76, 75, 65, STAR, COMMA}

\* "LK,0,0,21", the keep-alive of src/test-connection.js.
sLK21 == <<76, 75, 44, 48, 44, 48, 44, 50, 49>>

\* The bodies of SpecDispatch: the keywords of the dispatcher, some of
\* them run together, and every string over BodyChars up to MaxBodyLen.
Bodies ==
  { sLK, sLK21, sUD, sUD2, sUD_LTE, sUD_WCDMA, sAL, sAL_LTE, sCONFIG,
    sCONFIG1, sTS, sVERNO, sCR, sLK \o sAL, sAL \o sLK, sCONFIG \o sLK,
    sUD \o sAL, sTS \o sCONFIG, sVERNO \o <<STAR>> \o sLK }
    \cup UNION { [1..n -> BodyChars] : n \in 0..MaxBodyLen }

\* "CS", the other protocol tag devices use.
sCS == <<67, 83>>

\* The frame interiors of SpecDispatch: four fields or more (the body may
\* hold "*"), and some with fewer fields.
Interiors ==
  { Join(<<proto, imei, s0002, body>>, STAR) :
      proto \in {s3G, sCS}, imei \in {D1, <<>>}, body \in Bodies }
    \cup { <<>>, s3G, Join(<<s3G, D1>>, STAR), Join(<<s3G, D1, sLK>>, STAR) }

DispatchStreams == { <<LBRACK>> \o x \o <<RBRACK>> : x \in Interiors }

InitDispatch == InitProg /\ stream \in DispatchStreams

\* The frame arrives on c as one chunk.
DispatchData == \E c \in Conns : Feed(c, Len(stream))

NextDispatch ==
  \/ DoConnect
  \/ DispatchData
  \/ DoSinkComplete
  \/ DoClose

SpecDispatch == InitDispatch /\ [][NextDispatch]_vars

(* ------------------------------------------------------------------ *)
(* SpecOperator: acknowledged keywords and operator requests            *)
(* ------------------------------------------------------------------ *)
\* Data events per behaviour of SpecOperator.
MaxOpData == 1
\* Operator requests per behaviour of SpecOperator.
MaxOps == 1
\* The newIp values of SpecOperator run through every length up to this.
MaxIpLen == 1

\* The chunks of SpecOperator: one frame of each acknowledged keyword.
OpChunks ==
  { DeviceFrame(D1, sLK21), DeviceFrame(D1, sAL), DeviceFrame(D2, sCONFIG) }

\* The imei fields an operator may send: "1", "2" and the empty string.
OpImeis == {D1, D2, <<>>}

\* The newIp and newPort fields an operator may send: the two documented
\* pairs, a missing newIp (null), and strings of "x" whose payloads have
\* the lengths 9..MaxIpLen+8 and 10, 100 and 9999.
OpTargets ==
  { <<Ip22, Port6808>>, <<Ip14, Port9000>>, <<Null, Port6808>> }
    \cup { <<Repeat(n), Port6808>> :
             n \in (1..MaxIpLen) \cup {2, 92, 9991} }

OpData ==
  \E c \in Conns, chunk \in OpChunks :
    /\ nData < MaxOpData
    /\ Data(c, chunk)
    /\ nData' = nData + 1
    /\ UNCHANGED <<stream, fed, nOps>>

DoChangeServer ==
  \E imei \in OpImeis, target \in OpTargets :
    /\ nOps < MaxOps
    /\ ChangeServer(imei, target[1], target[2])
    /\ nOps' = nOps + 1
    /\ UNCHANGED <<stream, fed, nData>>

DoSendTs ==
  \E imei \in OpImeis :
    /\ nOps < MaxOps
    /\ SendTs(imei)
    /\ nOps' = nOps + 1
    /\ UNCHANGED <<stream, fed, nData>>

DoSendCr ==
  \E imei \in OpImeis :
    /\ nOps < MaxOps
    /\ SendCr(imei)
    /\ nOps' = nOps + 1
    /\ UNCHANGED <<stream, fed, nData>>

NextOperator ==
  \/ DoConnect
  \/ OpData
  \/ DoSinkComplete
  \/ DoClose
  \/ DoChangeServer
  \/ DoSendTs
  \/ DoSendCr

SpecOperator == Init /\ [][NextOperator]_vars

(* ------------------------------------------------------------------ *)
(* SpecFaults: the connections of Spec with transports that may start   *)
(* to reject writes, and the operator's /send-ts and /send-cr           *)
(* ------------------------------------------------------------------ *)
\* Data events per behaviour of SpecFaults.
MaxFaultData == 1

DoBreak == \E c \in Conns : Break(c) /\ UNCHANGED <<stream, fed, nData, nOps>>

\* The chunks of SpecFaults: two acknowledged frames in one chunk, and a
\* frame without reply.
FaultChunks ==
  { DeviceFrame(D1, sLK) \o DeviceFrame(D1, sAL), DeviceFrame(D2, sUD) }

FaultData ==
  \E c \in Conns, chunk \in FaultChunks :
    /\ nData < MaxFaultData
    /\ Data(c, chunk)
    /\ nData' = nData + 1
    /\ UNCHANGED <<stream, fed, nOps>>

NextFaults ==
  \/ DoConnect
  \/ FaultData
  \/ DoSinkComplete
  \/ DoClose
  \/ DoBreak
  \/ DoSendTs
  \/ DoSendCr

SpecFaults == Init /\ [][NextFaults]_vars

(* ------------------------------------------------------------------ *)
(* Claims                                                               *)
(* ------------------------------------------------------------------ *)
\* The registry maps imei D to connection c.
Maps(reg, D, c) == D \in DOMAIN reg /\ reg[D] = c

\* C1: when connection a closes, an identity D that a once set in the
\* registry and that another, still open connection b has overwritten
\* since keeps b as its registry entry: a's close does not evict b's
\* binding.
C1_CloseKeepsNewerBinding ==
  [][\A a \in Conns, b \in Conns :
       \A D \in everSet[a] :
         (a # b /\ status[a] = "open" /\ status'[a] = "closed"
            /\ status'[b] = "open" /\ Maps(socketsByImei, D, b))
         => Maps(socketsByImei', D, b)]_vars

\* C2: a connection that has closed and has no data handler pending holds
\* no entry of the registry, under any identity.
C2_ClosedHasNoSession ==
  \A c \in Conns :
    (status[c] = "closed" /\ pending[c] = <<>>)
    => \A D \in DOMAIN socketsByImei : socketsByImei[D] # c

\* s begins with the keyword kw, character by character.
HasKeyword(s, kw) == Len(s) >= Len(kw) /\ \A i \in 1..Len(kw) : s[i] = kw[i]

\* The reply table of the protocol: "[3G*D*0002*LK]" for LK,
\* "[3G*D*0002*AL]" for AL, "[3G*D*0008*CONFIG,1]" for CONFIG, and no
\* reply for anything else.
TableReply(D, body) ==
  IF HasKeyword(body, <<76, 75>>)
  THEN <<(<<91, 51, 71, 42>> \o D \o <<42, 48, 48, 48, 50, 42, 76, 75, 93>>)>>
  ELSE IF HasKeyword(body, <<65, 76>>)
  THEN <<(<<91, 51, 71, 42>> \o D \o <<42, 48, 48, 48, 50, 42, 65, 76, 93>>)>>
  ELSE IF HasKeyword(body, <<67, 79, 78, 70, 73, 71>>)
  THEN <<(<<91, 51, 71, 42>> \o D
            \o <<42, 48, 48, 48, 56, 42, 67, 79, 78, 70, 73, 71, 44, 49, 93>>)>>
  ELSE <<>>

\* The number of "*"-separated fields of a frame interior.
FieldCount(x) == 1 + Cardinality({i \in 1..Len(x) : x[i] = STAR})

\* The position of the n-th "*" of a frame interior.
NthStar(x, n) ==
  CHOOSE i \in 1..Len(x) :
    x[i] = STAR /\ Cardinality({j \in 1..(i - 1) : x[j] = STAR}) = n - 1

\* The four parts of the wire format `<protocolTag>*<deviceId>*<len>*<body>`
\* of an interior with at least three "*": the body is all that follows
\* the third one.
TagOf(x) == SubSeq(x, 1, NthStar(x, 1) - 1)
DeviceIdOf(x) == SubSeq(x, NthStar(x, 1) + 1, NthStar(x, 2) - 1)
DeclaredLengthOf(x) == SubSeq(x, NthStar(x, 2) + 1, NthStar(x, 3) - 1)
BodyOf(x) == SubSeq(x, NthStar(x, 3) + 1, Len(x))

\* The frame of connection c has been dispatched to the end: c received the
\* frame, it was well-formed and its handler is no longer suspended.
Dispatched(c) ==
  Len(frames[c]) = 1 /\ FieldCount(frames[c][1]) >= 4 /\ pending[c] = <<>>

\* C3: once the one message of a connection is dispatched, what has been
\* written to that connection is exactly the reply the table gives for the
\* message's body, carrying the message's deviceId; before that, and for a
\* malformed frame, nothing is written to it.
C3_ReplyTable ==
  \A c \in Conns :
    IF Dispatched(c)
    THEN written[c] = TableReply(DeviceIdOf(frames[c][1]), BodyOf(frames[c][1]))
    ELSE written[c] = <<>>

\* C3 witness: an AL_LTE alarm of device "1" has been dispatched and
\* answered with "[3G*1*0002*AL]" on its connection.
C3_Witness ==
  /\ ev.type = "sink"
  /\ ev.msg.body = sAL_LTE
  /\ ev.msg.imei = D1
  /\ written[ev.conn]
       = << <<91, 51, 71, 42, 49, 42, 48, 48, 48, 50, 42, 65, 76, 93>> >>

\* The upserts with status connected that connection c has issued.
Upserts(c) ==
  {i \in 1..Len(sinkCalls) : sinkCalls[i].conn = c /\ sinkCalls[i].connected}

\* The well-formed frames connection c has extracted.
WellFormed(c) == {i \in 1..Len(frames[c]) : FieldCount(frames[c][i]) >= 4}

\* C4: the dispatch of one well-formed message writes at most one reply,
\* leaves the registry entry of its deviceId set to its connection and
\* goes with exactly one upsert call, whatever the body.
C4_OneReplyOneWriteOneUpsert ==
  /\ ev.type = "sink" =>
       /\ Len(ev.replies) <= 1
       /\ Len(written[ev.conn]) <= 1
       /\ Maps(socketsByImei, ev.msg.imei, ev.conn)
  /\ \A c \in Conns : Cardinality(Upserts(c)) = Cardinality(WellFormed(c))

\* C4 witness: a body that holds two reply keywords, "ALLK", has been
\* dispatched with exactly one reply.
C4_Witness ==
  /\ ev.type = "sink"
  /\ ev.msg.body = sAL \o sLK
  /\ Len(ev.replies) = 1
  /\ Cardinality(Upserts(ev.conn)) = 1

\* C9: the message parsed from a frame interior with 4 fields or more has
\* the interior's first field as protocolTag, its second as deviceId, its
\* third as declaredLength and all that follows the third "*" as body, so
\* that the four rejoined with "*" are the interior verbatim.
C9_ParserFields ==
  \A c \in Conns :
    \A i \in 1..Len(pending[c]) :
      LET m == pending[c][i]
          x == frames[c][Len(frames[c])]
      IN  /\ m.proto = TagOf(x)
          /\ m.imei = DeviceIdOf(x)
          /\ m.lenField = DeclaredLengthOf(x)
          /\ m.body = BodyOf(x)
          /\ m.proto \o <<STAR>> \o m.imei \o <<STAR>> \o m.lenField
               \o <<STAR>> \o m.body = x

\* C9 witness: a message whose body holds a "*", "VERNO*LK", is parsed
\* and waits for its upsert.
C9_Witness ==
  \E c \in Conns :
    /\ Len(pending[c]) = 1
    /\ pending[c][1].body = sVERNO \o <<STAR>> \o sLK
    /\ pending[c][1].imei = D1
    /\ FieldCount(frames[c][1]) = 5

\* The deviceIds of the connected-upserts connection c has issued, in order.
UpsertIds(c) ==
  LET mine == SelectSeq(sinkCalls, LAMBDA r : r.conn = c /\ r.connected)
  IN  [i \in 1..Len(mine) |-> mine[i].imei]

\* The deviceIds of the well-formed frames connection c has extracted, in
\* order.
WellFormedIds(c) ==
  LET wf == SelectSeq(frames[c], LAMBDA x : FieldCount(x) >= 4)
  IN  [i \in 1..Len(wf) |-> DeviceIdOf(wf[i])]

\* C5: every well-formed frame of a connection, whatever its keyword, has
\* its upsert with status connected issued for its deviceId, one per frame
\* and in the order of the frames, and right after the dispatch of a
\* message the registry maps its deviceId to the connection it came on.
C5_EveryMessageClaimsBinding ==
  /\ \A c \in Conns : UpsertIds(c) = WellFormedIds(c)
  /\ ev.type = "sink" => Maps(socketsByImei, ev.msg.imei, ev.conn)

\* C5 witness: a UD position report of device "2" has been dispatched with
\* no reply, and the registry maps "2" to its connection although another
\* connection had bound "2" before.
C5_Witness ==
  /\ ev.type = "sink"
  /\ ev.msg.body = sUD
  /\ ev.msg.imei = D2
  /\ ev.replies = <<>>
  /\ Maps(socketsByImei, D2, ev.conn)
  /\ \E c \in Conns \ {ev.conn} : D2 \in everSet[c]
  /\ Len(UpsertIds(ev.conn)) >= 1

\* The frame loop would extract a frame from b: a "[" comes before the
\* first "]".
Extractable(b) ==
  \E j \in 1..Len(b) :
    /\ b[j] = RBRACK
    /\ \A k \in 1..(j - 1) : b[k] # RBRACK
    /\ \E i \in 1..(j - 1) : b[i] = LBRACK

\* The total length of the frames of a sequence, brackets included.
RECURSIVE FramedLen(_)
FramedLen(fs) == IF Len(fs) = 0 THEN 0 ELSE Len(Head(fs)) + 2 + FramedLen(Tail(fs))

\* C6: a data event that extracts only malformed frames (fewer than 4
\* fields) writes no reply, issues no sink call and changes neither the
\* registry nor the tracked deviceImei nor the suspended handlers; the
\* frames are consumed from the buffer, and framing has gone on until no
\* frame is left to extract. A malformed frame never ends the extraction:
\* of the frames one data event extracts, only the last can be well-formed.
C6_MalformedDropped ==
  [][\A c \in Conns :
       (ev'.type = "data" /\ ev'.conn = c) =>
         LET new == SubSeq(frames'[c], Len(frames[c]) + 1, Len(frames'[c]))
         IN  /\ \A i \in 1..(Len(new) - 1) : FieldCount(new[i]) < 4
             /\ Len(buffer'[c]) + FramedLen(new)
                  <= Len(buffer[c]) + Len(ev'.data)
             /\ (Len(new) > 0 /\ FieldCount(new[Len(new)]) < 4) =>
                  /\ written' = written
                  /\ sinkCalls' = sinkCalls
                  /\ socketsByImei' = socketsByImei
                  /\ deviceImei' = deviceImei
                  /\ pending' = pending
                  /\ ~Extractable(buffer'[c])]_vars

\* C6 witness: the malformed frame "[3G*1*LK]" has arrived on a connection
\* that tracks device "2"; it is extracted and consumed, and the connection
\* still tracks "2".
C6_Witness ==
  /\ ev.type = "data"
  /\ ev.chunk = Malformed
  /\ deviceImei[ev.conn] = D2
  /\ frames[ev.conn][Len(frames[ev.conn])] = s3G \o <<STAR>> \o D1 \o <<STAR>> \o sLK
  /\ buffer[ev.conn] = <<>>
  /\ Maps(socketsByImei, D2, ev.conn)

\* Connection c has received the whole stream and none of its data
\* handlers is suspended.
FedAll(c) == Len(stream) > 0 /\ fed[c] = Len(stream) /\ pending[c] = <<>>

\* C7: two connections that have received the same byte stream, each cut
\* into chunks in its own way (one of them possibly as a single chunk),
\* have extracted the same sequence of frames.
C7_Restartable ==
  \A a \in Conns, b \in Conns :
    (FedAll(a) /\ FedAll(b)) => frames[a] = frames[b]

\* The hex digits of a text, in order.
DigitsOf(text) ==
  SelectSeq(text, LAMBDA ch : ch \in HexDigits)

\* The text a string of an even number of hex digits stands for: byte i is
\* made of the digits 2i-1 and 2i.
HexText(d) ==
  Utf8Decode([i \in 1..(Len(d) \div 2) |-> 16 * HexVal(d[2 * i - 1]) + HexVal(d[2 * i])])

\* A chunk's text is a hex wrapper: only hex digits and whitespace, an even
\* number of hex digits, and a decoding with both markers.
IsHexWrapper(text) ==
  /\ \A i \in 1..Len(text) : text[i] \in HexDigits \cup WhitespaceChars
  /\ Len(DigitsOf(text)) % 2 = 0
  /\ \E i \in 1..Len(HexText(DigitsOf(text))) : HexText(DigitsOf(text))[i] = LBRACK
  /\ \E i \in 1..Len(HexText(DigitsOf(text))) : HexText(DigitsOf(text))[i] = RBRACK

\* The frames and the leftover the frame loop gives for a text sent
\* directly, run to its end.
RECURSIVE Framing(_, _)
Framing(buf, seen) ==
  LET r == FrameLoop(buf, seen)
  IN  IF r.msg = NoMsg THEN [buffer |-> r.buffer, frames |-> r.frames]
      ELSE Framing(r.buffer, r.frames)

\* C8: what a data event appends to the buffer is the hex decoding of the
\* chunk when the chunk is a hex wrapper, and the chunk's own text
\* otherwise (a marker missing from the decoding, an odd number of digits
\* or a character that is neither a hex digit nor whitespace); a first
\* chunk is framed as that text sent directly is.
C8_HexWrapper ==
  ev.type = "data" =>
    LET text == Utf8Decode(ev.chunk)
        expected == IF IsHexWrapper(text) THEN HexText(DigitsOf(text)) ELSE text
    IN  /\ ev.data = expected
        /\ (fed[ev.conn] = Len(ev.chunk) /\ pending[ev.conn] = <<>>) =>
             /\ frames[ev.conn] = Framing(expected, <<>>).frames
             /\ buffer[ev.conn] = Framing(expected, <<>>).buffer

\* C8 witness: the chunk "5B 5D" has been appended as "[]", and the empty
\* frame has been extracted from it.
C8_Witness ==
  /\ ev.type = "data"
  /\ ev.chunk = <<53, 66, 32, 53, 68>>
  /\ ev.data = <<LBRACK, RBRACK>>
  /\ frames[ev.conn] = << <<>> >>
  /\ buffer[ev.conn] = <<>>

\* The number a string of decimal digits stands for.
RECURSIVE DecimalValue(_)
DecimalValue(d) ==
  IF Len(d) = 0 THEN 0
  ELSE 10 * DecimalValue(SubSeq(d, 1, Len(d) - 1)) + (d[Len(d)] - 48)

\* What is between the brackets of a written frame.
InteriorOf(w) == SubSeq(w, 2, Len(w) - 1)

\* A frame interior has a third "*", that is, 4 fields or more.
HasFourFields(x) ==
  \E i \in 1..Len(x) :
    x[i] = STAR /\ Cardinality({j \in 1..(i - 1) : x[j] = STAR}) = 2

\* A written frame has the shape [3G*deviceId*LEN*body], and LEN is the
\* length of body in 4 decimal digits when that length is at most 9999.
WellShaped(w) ==
  /\ Len(w) >= 2 /\ w[1] = LBRACK /\ w[Len(w)] = RBRACK
  /\ LET x == InteriorOf(w)
     IN  /\ HasFourFields(x)
         /\ TagOf(x) = <<51, 71>>
         /\ LET len == DeclaredLengthOf(x)
                bodyLen == Len(x) - NthStar(x, 3)
            IN  bodyLen <= 9999 =>
                  /\ Len(len) = 4
                  /\ \A i \in 1..4 : len[i] \in 48..57
                  /\ DecimalValue(len) = bodyLen

\* The frame the last operator command wrote.
LastCmd == written[ev.conn][Len(written[ev.conn])]

\* The last event is an operator command that was sent.
Sent == ev.type = "http" /\ ev.status = 200

\* Every frame written so far is well shaped, and the frame of the last
\* operator command carries the command's deviceId and, for /send-ts and
\* /send-cr, the body TS and CR.
AllWellShaped ==
  /\ \A c \in Conns : \A i \in 1..Len(written[c]) : WellShaped(written[c][i])
  /\ Sent =>
       /\ DeviceIdOf(InteriorOf(LastCmd)) = ev.imei
       /\ ev.route = "send-ts" => BodyOf(InteriorOf(LastCmd)) = <<84, 83>>
       /\ ev.route = "send-cr" => BodyOf(InteriorOf(LastCmd)) = <<67, 82>>
       /\ ev.route = "change-server" =>
            SubSeq(BodyOf(InteriorOf(LastCmd)), 1, 3) = <<73, 80, 44>>

\* The LEN field of the last operator command is len if its payload is p.
LenExample(p, len) ==
  (Sent /\ BodyOf(InteriorOf(LastCmd)) = p)
    => DeclaredLengthOf(InteriorOf(LastCmd)) = len

\* "IP,148.230.83.171,6808" and "IP,1.2.3.4,9000".
Payload22 ==
  <<73, 80, 44, 49, 52, 56, 46, 50, 51, 48, 46, 56, 51, 46, 49, 55, 49, 44,
    54, 56, 48, 56>>
Payload15 == <<73, 80, 44, 49, 46, 50, 46, 51, 46, 52, 44, 57, 48, 48, 48>>

C11_NotFoundNoWrite ==
  [][(nOps' = nOps + 1 /\ ev'.status # 400
        /\ ev'.imei \notin DOMAIN socketsByImei)
     => /\ ev'.status = 404
        /\ written' = written
        /\ socketsByImei' = socketsByImei]_vars

\* C11 witness: a command was answered 404 while another device had a
\* registry entry.
C11_Witness ==
  /\ ev.type = "http"
  /\ ev.status = 404
  /\ DOMAIN socketsByImei # {}

\* The connection of the last connected upsert issued for imei D.
LastConnOf(D) ==
  LET idx == {i \in 1..Len(sinkCalls) :
                sinkCalls[i].imei = D /\ sinkCalls[i].connected}
  IN  IF idx = {} THEN "none"
      ELSE sinkCalls[CHOOSE i \in idx : \A j \in idx : j <= i].conn

\* C12: an operator command that reports sent has written its frame to a
\* connection that is open and on which the device's most recent
\* well-formed message arrived.
C12_SentToLiveSession ==
  Sent => /\ status[ev.conn] = "open"
          /\ ev.conn = LastConnOf(ev.imei)

\* The step completes the upsert of a message of connection c.
SinkStep(c) == ev'.type = "sink" /\ ev'.conn = c

\* C13: when the upsert of a well-formed message is rejected, the
\* registry entry of the message's deviceId is still set to the
\* connection, the reply the keyword requires is still written, and the
\* frames left in the buffer are still processed.
C13_SinkFailureCaught ==
  [][\A c \in Conns :
       (SinkStep(c) /\ ~ev'.ok) =>
         /\ Maps(socketsByImei', ev'.msg.imei, c)
         /\ ~writeFails[c] =>
              written'[c] = written[c] \o TableReply(ev'.msg.imei, ev'.msg.body)
         /\ Extractable(buffer[c]) => Len(frames'[c]) > Len(frames[c])
         /\ ~Extractable(buffer'[c]) \/ Len(pending'[c]) = Len(pending[c])]_vars

\* C13 witness: the upsert of a keep-alive was rejected, its reply is the
\* last frame written to the connection, and a later frame of the same
\* connection has been extracted since.
C13_Witness ==
  /\ ev.type = "sink"
  /\ ~ev.ok
  /\ ev.msg.body = sLK
  /\ Len(written[ev.conn]) > 0
  /\ written[ev.conn][Len(written[ev.conn])] = ServerFrame(ev.msg.imei, s0002, sLK)
  /\ Len(frames[ev.conn]) >= 2
  /\ Len(pending[ev.conn]) >= 1

\* C15: when the write of a reply or of an operator command fails, no
\* connection is closed, the registry keeps the entry of the device (for
\* a reply: the entry the dispatch has just set; for a command: the
\* registry as it was), and the frames left in the buffer are still
\* dispatched.
C15_WriteFailureContained ==
  [][/\ \A c \in Conns :
          (SinkStep(c) /\ writeFails[c] /\ ev'.replies # <<>>) =>
            /\ status' = status
            /\ written' = written
            /\ Maps(socketsByImei', ev'.msg.imei, c)
            /\ Extractable(buffer[c]) => Len(frames'[c]) > Len(frames[c])
     /\ (nOps' = nOps + 1 /\ ev'.status = 200 /\ writeFails[ev'.conn]) =>
          /\ status' = status
          /\ written' = written
          /\ socketsByImei' = socketsByImei]_vars

\* C15 witness: the reply to a keep-alive could not be written, and the
\* alarm that followed it in the buffer has been extracted and is at the
\* record sink.
C15_Witness ==
  /\ ev.type = "sink"
  /\ ev.msg.body = sLK
  /\ writeFails[ev.conn]
  /\ written[ev.conn] = <<>>
  /\ status[ev.conn] = "open"
  /\ Len(pending[ev.conn]) = 1
  /\ pending[ev.conn][1].body = sAL

\* The handler of a keep-alive of connection c is suspended at the record
\* sink: the message is extracted, its reply and its registry entry are
\* still to come.
LkAtSink(c) ==
  \E i \in 1..Len(pending[c]) : HasKeyword(pending[c][i].body, <<76, 75>>)

\* C14: a keep-alive that has reached an open connection gets its
\* acknowledgement and its registry entry without waiting for the record
\* sink: unless the connection closes first, a handler suspended at the
\* sink for it does not stay so, even in behaviours where the sink never
\* settles.
C14_ReplyNotBlockedBySink ==
  \A c \in Conns :
    (status[c] = "open" /\ LkAtSink(c)) ~> (~LkAtSink(c) \/ status[c] # "open")

\* A start marker of b is followed, later in b, by an end marker.
HasMarkerPair(b) ==
  \E i \in 1..Len(b) : \E j \in (i + 1)..Len(b) :
    b[i] = LBRACK /\ b[j] = RBRACK

\* C16: extraction is repeated until no complete marker pair remains: the
\* buffer of a connection with no data handler pending holds no "[" that
\* is followed by a "]", also when a stray "]" came ahead of the first "[".
C16_NoPairLeft ==
  \A c \in Conns : pending[c] = <<>> => ~HasMarkerPair(buffer[c])

\* C17: the reply to a well-formed message that requires an
\* acknowledgement carries the protocolTag of that message.
C17_ReplyKeepsTag ==
  \A c \in Conns :
    (Dispatched(c) /\ Len(written[c]) > 0) =>
      TagOf(InteriorOf(written[c][1])) = TagOf(frames[c][1])

\* The frames of a sequence, each between its markers, one after another.
RECURSIVE Framed(_)
Framed(fs) ==
  IF Len(fs) = 0 THEN <<>>
  ELSE <<LBRACK>> \o Head(fs) \o <<RBRACK>> \o Framed(Tail(fs))

\* The text connection c has received, put together again from the frames
\* it has extracted, in the order of extraction, and what its buffer
\* still holds. (The devices of Spec send nothing between frames.)
Rebuilt(c) == Framed(frames[c]) \o buffer[c]

\* C18: whatever data events and sink completions interleave on a
\* connection, the frames extracted so far followed by the buffer are the
\* received text: a data event adds its text at the end and nothing else
\* changes it, so every frame is extracted once and in stream order.
C18_ExactlyOnceInOrder ==
  [][\A c \in Conns :
       Framed(frames'[c]) \o buffer'[c] = IF ev'.type = "data" /\ ev'.conn = c
         THEN Rebuilt(c) \o ev'.data
         ELSE Rebuilt(c)]_vars

\* C18 witness: on one connection the handler of the second frame (UD of
\* device "2") has completed while the handler of the first (a
\* keep-alive) is still suspended, and has gone on to extract a third
\* frame, which arrived in a later data event.
C18_Witness ==
  /\ ev.type = "sink"
  /\ ev.msg.imei = D2
  /\ Len(frames[ev.conn]) >= 3
  /\ frames[ev.conn][2] = Join(<<s3G, D2, s0002, sUD>>, STAR)
  /\ Len(pending[ev.conn]) = 2
  /\ pending[ev.conn][1].body = sLK

\* The replies the frames of a sequence call for, in the order of the
\* frames.
RECURSIVE RepliesDue(_)
RepliesDue(fs) ==
  IF Len(fs) = 0 THEN <<>>
  ELSE (IF FieldCount(Head(fs)) >= 4
        THEN TableReply(DeviceIdOf(Head(fs)), BodyOf(Head(fs)))
        ELSE <<>>) \o RepliesDue(Tail(fs))

\* a can be had from b by leaving elements out, the order kept.
RECURSIVE IsSubsequence(_, _)
IsSubsequence(a, b) ==
  IF Len(a) = 0 THEN TRUE
  ELSE IF Len(b) = 0 THEN FALSE
  ELSE IF Head(a) = Head(b) THEN IsSubsequence(Tail(a), Tail(b))
  ELSE IsSubsequence(a, Tail(b))

\* C19: the replies written to a connection are in the order of the
\* frames that triggered them: at any moment they are the replies due to
\* the extracted frames, in frame order, less those not yet written.
C19_RepliesInFrameOrder ==
  \A c \in Conns : IsSubsequence(written[c], RepliesDue(frames[c]))

\* C20: once the close handler of a connection has issued the
\* disconnected update, that connection issues no connected upsert.
C20_NoUpsertAfterDisconnect ==
  \A i \in 1..Len(sinkCalls) : \A j \in (i + 1)..Len(sinkCalls) :
    ~(/\ ~sinkCalls[i].connected
      /\ sinkCalls[j].connected
      /\ sinkCalls[j].conn = sinkCalls[i].conn)
====
